---- MODULE Spec2Model ----
(***************************************************************************)
(* CEK power outage integration (igorblyzn/cek-ha).                        *)
(*                                                                         *)
(* The module models                                                       *)
(*   - the extraction pipeline of coordinator.py (_fetch_data and the      *)
(*     extractors it calls) and of the command line parser parse_cek.py,   *)
(*     over documents made of markup blocks;                               *)
(*   - the temporal projection (_calculate_next_outage, _is_outage_active);*)
(*   - the update cycle of CEKDataUpdateCoordinator (_async_update_data)   *)
(*     and the binary sensor that reads coordinator.data.                  *)
(*   - TextExtractor, fed a page token by token;                           *)
(*   - the totals and the block timeline that CEKSensor derives from the   *)
(*     schedule.                                                           *)
(*                                                                         *)
(* Texts are modelled by what the regular expressions of the source can    *)
(* see of them: a clock text "HH:MM" is the pair of its two two-digit      *)
(* numbers, a schedule entry "HH:MM <sep> HH:MM" is a record with the      *)
(* separator word, a month name is its index in UKRAINIAN_MONTHS.          *)
(***************************************************************************)
EXTENDS Integers, Sequences, FiniteSets, TLC

VARIABLES
    html,                  \* the document served by the site (sequence of blocks)
    now,                   \* wall clock in Home Assistant's time zone (dt_util.now())
    tzSkew,                \* minutes by which the OS-local clock (datetime.now()) is ahead
    schedule,              \* argument of the temporal projector
    date_str,              \* argument of the temporal projector
    rec,                   \* value returned by the operation under study
    cli,                   \* value returned by parse_cek.parse_cek_page
    pc,                    \* position of the modelled call / update cycle
    last_successful_data,  \* coordinator._last_successful_data
    last_updated,          \* coordinator._last_updated
    last_check,            \* coordinator._last_check
    last_error,            \* coordinator._last_error
    data,                  \* coordinator.data (what the entities read)
    result,                \* what the last finished _async_update_data returned or raised
    lastGood,              \* history: record produced by the most recent successful cycle
    lastOutcome,           \* history: how the last finished cycle ended
    feed,                  \* markup tokens not yet handed to HTMLParser.feed's dispatch
    cdata_elem,            \* HTMLParser.cdata_elem: the raw-text element being read
    current_skip,          \* TextExtractor._current_skip
    text_parts,            \* TextExtractor.text_parts
    open                   \* history: the non-rendering elements open so far, innermost last

vars == <<html, now, tzSkew, schedule, date_str, rec, cli, pc,
          last_successful_data, last_updated, last_check, last_error,
          data, result, lastGood, lastOutcome,
          feed, cdata_elem, current_skip, text_parts, open>>

textVars == <<feed, cdata_elem, current_skip, text_parts, open>>

coordVars == <<last_successful_data, last_updated, last_check, last_error,
               data, result, lastGood, lastOutcome>>

-----------------------------------------------------------------------------
(* Bounds of the model.                                                    *)

MaxRanges == 2      \* longest schedule handed to the temporal projector
MaxBlocks == 3      \* longest document, in markup blocks

-----------------------------------------------------------------------------
(* Values.                                                                 *)

None == [tag |-> "none"]                 \* Python None
ValueError == [tag |-> "ValueError"]     \* a raised ValueError
UpdateFailed == [tag |-> "UpdateFailed"] \* a raised UpdateFailed
URLError == [tag |-> "URLError"]         \* what urlopen raises when the site is unreachable

\* The text "HH:MM": two digits, a colon, two digits (\d{2}:\d{2}).
Clock(h, m) == [h |-> h, m |-> m]

\* A time range as written in the markup: "HH:MM <sep> HH:MM" with the
\* separator word "do" (to) or "po" (through).
RangeText(s, sep, e) == [start |-> s, sep |-> sep, end |-> e]

\* f"{start} do {end}": the one form in which entries are written.
FormatRange(s, e) == RangeText(s, "do", e)

MinutesPerDay == 1440

\* Minutes of day of a clock text, int(h) * 60 + int(m).
MinutesOf(c) == c.h * 60 + c.m

\* now.strftime("%H:%M") of a minute of day.
Strftime(minute) == Clock(minute \div 60, minute % 60)

\* The OS-local wall clock minute read by datetime.now().
OsMinute(n, skew) == (n.minute + skew) % MinutesPerDay

\* Lexicographic order on two texts "HH:MM" (Python str <=).
StrLE(a, b) == a.h < b.h \/ (a.h = b.h /\ a.m <= b.m)

-----------------------------------------------------------------------------
(* Calendar (datetime of the standard library).                            *)

IsLeap(y) == (y % 4 = 0 /\ y % 100 # 0) \/ y % 400 = 0

DaysInMonth(y, m) ==
    IF m = 2 THEN (IF IsLeap(y) THEN 29 ELSE 28)
    ELSE IF m \in {4, 6, 9, 11} THEN 30 ELSE 31

\* datetime(year, month, day, tzinfo=local_tz): midnight of that date, or
\* ValueError when the day does not exist in that month.
Datetime(y, m, d) ==
    IF m \in 1..12 /\ d >= 1 /\ d <= DaysInMonth(y, m)
    THEN [tag |-> "datetime", year |-> y, month |-> m, day |-> d, minute |-> 0]
    ELSE ValueError

\* dt.replace(hour=h, minute=m): ValueError outside 0..23 / 0..59.
Replace(dt, h, m) ==
    IF h \in 0..23 /\ m \in 0..59
    THEN [dt EXCEPT !.minute = h * 60 + m]
    ELSE ValueError

\* Position of an instant on the time line (both operands are in the same zone).
Ord(dt) == ((dt.year * 12 + (dt.month - 1)) * 31 + (dt.day - 1)) * MinutesPerDay + dt.minute

\* a > b on datetimes.
After(a, b) == Ord(a) > Ord(b)

-----------------------------------------------------------------------------
(* UKRAINIAN_MONTHS: 1..12 are the upper-case spellings, 13..24 the        *)
(* lower-case ones. A date text "<day> <month name>" is the pair of the    *)
(* day number and the spelling that the regular expression captured.       *)

\* str.lower() of a month spelling.
Lower(sp) == IF sp <= 12 THEN sp + 12 ELSE sp

DateText(d, sp) == [tag |-> "date", day |-> d, spelling |-> sp]

\* The loop over UKRAINIAN_MONTHS[:12]: idx + 1 for the first index whose
\* lower-cased name occurs in the lower-cased date text (no month name
\* contains another one). 0 stands for "month is None".
month_of(ds) ==
    IF \E idx \in 0..11 : Lower(idx + 1) = Lower(ds.spelling)
    THEN (CHOOSE idx \in 0..11 :
            /\ Lower(idx + 1) = Lower(ds.spelling)
            /\ \A j \in 0..11 : Lower(j + 1) = Lower(ds.spelling) => idx <= j) + 1
    ELSE 0

-----------------------------------------------------------------------------
(* Temporal projector: _calculate_next_outage and _is_outage_active.       *)

\* year = now.year; if month < now.month: year += 1
resolve_year_rolls_on_equal(month, n) == IF month <= n.month THEN n.year + 1 ELSE n.year

resolve_year(month, n) == IF month < n.month THEN n.year + 1 ELSE n.year

\* The for loop over the schedule: the first entry, in schedule order, whose
\* start on the outage date is after now. An entry whose hour or minute is
\* out of range makes replace() raise as soon as the loop reaches it.
RECURSIVE next_outage_loop(_, _, _)
next_outage_loop(sched, outage_date, n) ==
    IF sched = <<>> THEN None
    ELSE LET time_range == Head(sched)
             outage_time == Replace(outage_date, time_range.start.h, time_range.start.m)
         IN  IF outage_time = ValueError THEN ValueError
             ELSE IF After(outage_time, n) THEN outage_time
             ELSE next_outage_loop(Tail(sched), outage_date, n)

\* The body of the try block.
next_outage_try(sched, ds, n) ==
    LET day == ds.day
        month == month_of(ds)
    IN  IF month = 0 THEN None
        ELSE LET year == resolve_year(month, n)
                 outage_date == Datetime(year, month, day)
             IN  IF outage_date = ValueError THEN ValueError
                 ELSE next_outage_loop(sched, outage_date, n)

\* except (ValueError, AttributeError): return None
except_nothing(outcome) == outcome

except_value_error(outcome) == IF outcome = ValueError THEN None ELSE outcome

\* _calculate_next_outage(schedule, date_str) evaluated at dt_util.now() = n.
calculate_next_outage(sched, ds, n) ==
    IF sched = <<>> \/ ds = None THEN None
    ELSE except_value_error(next_outage_try(sched, ds, n))

\* re.match(r"(\d{2}:\d{2})\s*do\s*(\d{2}:\d{2})", time_range)
MatchesDo(time_range) == time_range.sep = "do"

\* if start <= current_time <= end, on the texts
in_window(start, current_time, end) ==
    StrLE(start, current_time) /\ StrLE(current_time, end)

\* _is_outage_active(schedule) evaluated when datetime.now() shows minute m.
is_outage_active(sched, m) ==
    LET current_time == Strftime(m)
    IN  \E i \in 1..Len(sched) :
            /\ MatchesDo(sched[i])
            /\ in_window(sched[i].start, current_time, sched[i].end)

\* Lines 155-157 of _fetch_data: the two projections of one schedule. An
\* exception leaving _calculate_next_outage leaves _fetch_data as well.
project(sched, ds, n, skew) ==
    LET next_outage == calculate_next_outage(sched, ds, n)
        is_active == is_outage_active(sched, OsMinute(n, skew))
    IN  IF next_outage = ValueError THEN ValueError
        ELSE [tag |-> "projection", next_outage |-> next_outage, is_active |-> is_active]

-----------------------------------------------------------------------------
(* TextExtractor. A page is a sequence of markup tokens: a start tag, an   *)
(* end tag, or a run of text. A text is the sequence of its characters.    *)
(* HTMLParser reads the content of a script or style element as raw text:  *)
(* until the end tag of that element every token reaches handle_data.      *)

StartTag(t) == [type |-> "start", tag |-> t, text |-> <<>>]
EndTag(t) == [type |-> "end", tag |-> t, text |-> <<>>]
Text(cs) == [type |-> "data", tag |-> "", text |-> cs]

\* self._skip_tags
skip_tags == {"script", "style", "noscript"}

\* html.parser.HTMLParser.CDATA_CONTENT_ELEMENTS
CDATA_CONTENT_ELEMENTS == {"script", "style"}

\* HTMLParser.cdata_elem = None
NoCdata == ""

\* str.strip(): the text without its leading and trailing white space.
RECURSIVE LStrip(_)
LStrip(cs) ==
    IF cs # <<>> /\ Head(cs) = " " THEN LStrip(Tail(cs)) ELSE cs

RECURSIVE RStrip(_)
RStrip(cs) ==
    IF cs # <<>> /\ cs[Len(cs)] = " " THEN RStrip(SubSeq(cs, 1, Len(cs) - 1)) ELSE cs

Strip(cs) == RStrip(LStrip(cs))

\* The source text of a token, as goahead() hands it to handle_data while a
\* raw-text element is being read.
RawText(tok) ==
    IF tok.type = "data" THEN tok.text
    ELSE <<"<">> \o (IF tok.type = "end" THEN <<"/">> ELSE <<>>) \o <<tok.tag, ">">>

\* goahead(): the token is delivered to handle_data.
IsData(tok, cdata) ==
    \/ tok.type = "data"
    \/ cdata # NoCdata /\ ~(tok.type = "end" /\ tok.tag = cdata)

\* handle_starttag(tag, attrs): the new value of _current_skip.
handle_starttag(skip, tag) == IF tag \in skip_tags THEN TRUE ELSE skip

\* handle_endtag(tag): the new value of _current_skip.
handle_endtag(skip, tag) == IF tag \in skip_tags THEN FALSE ELSE skip

\* handle_data(data): the new value of text_parts.
handle_data(parts, skip, chars) ==
    IF ~skip
    THEN LET text == Strip(chars)
         IN  IF text # <<>> THEN Append(parts, text) ELSE parts
    ELSE parts

\* TextExtractor.__init__, and nothing fed yet.
TextIdle ==
    /\ feed = <<>>
    /\ cdata_elem = NoCdata
    /\ current_skip = FALSE
    /\ text_parts = <<>>
    /\ open = <<>>

-----------------------------------------------------------------------------
(* Documents. The markup is a sequence of blocks; a block is what the       *)
(* patterns of the extractors can tell apart:                              *)
(*   para   <p>Q cherga: HH:MM do HH:MM<br/>...</p>   a primary block        *)
(*   ann    <p>(loudspeaker) ... key phrase ... D MONTH ...</p>; variant     *)
(*          "short" has the two words of the key phrase of coordinator.py   *)
(*          without the two more words of the key phrase of parse_cek.py    *)
(*   upd    a paragraph that contains "zminy v HPV" in some letter case,   *)
(*          or (variant "hrafiku") "zminy v hrafiku" instead                *)
(*   pin    (pushpin) Q<br/>(tick) z HH:MM po HH:MM    an override sub-block *)
(*   plain  a paragraph that matches no pattern                            *)
(*   script <script>... zminy v HPV ...</script>                           *)
(* The words of the site's language are tokens: each pattern is modelled   *)
(* against documents written with the word literals the pattern contains.  *)

Block(kind, queue, ranges, date, variant) ==
    [kind |-> kind, queue |-> queue, ranges |-> ranges, date |-> date, variant |-> variant]

Para(q, rs) == Block("para", q, rs, None, "-")
Ann(d) == Block("ann", "-", <<>>, d, "-")
AnnShort(d) == Block("ann", "-", <<>>, d, "short")
Upd(v) == Block("upd", "-", <<>>, None, v)
Pin(q, rs) == Block("pin", q, rs, None, "-")
Plain == Block("plain", "-", <<>>, None, "-")
Script == Block("script", "-", <<>>, None, "lower")

\* Optional list: Python's list | None keeps None and [] apart.
List(items) == [tag |-> "list", items |-> items]

\* Truth value of a list | None in an if.
Truthy(x) == x # None /\ x.items # <<>>

\* First position of s that satisfies P, 0 when there is none.
FirstIndex(s, P(_)) ==
    IF \E i \in 1..Len(s) : P(s[i])
    THEN CHOOSE i \in 1..Len(s) : P(s[i]) /\ \A j \in 1..(i - 1) : ~P(s[j])
    ELSE 0

\* TextExtractor over whole blocks: the content of a script element is
\* dropped, every other block contributes its text as one line.
TextLine(b) == [kind |-> b.kind, date |-> b.date, variant |-> b.variant]

NotSkipped(b) == b.kind # "script"

RECURSIVE MapLines(_)
MapLines(blocks) ==
    IF blocks = <<>> THEN <<>>
    ELSE <<TextLine(Head(blocks))>> \o MapLines(Tail(blocks))

extract_text_from_html(h) == MapLines(SelectSeq(h, NotSkipped))

\* key_phrase in line
HasKeyPhrase(line) == line.kind = "ann"

\* parse_cek.find_announcement: the key phrase is two words longer.
HasKeyPhraseCli(line) == line.kind = "ann" /\ line.variant # "short"

\* re.search(rf"(\d{{1,2}})\s+({months_pattern})", line, re.IGNORECASE)
HasDate(line) == line.date # None

\* phrase.lower() in line_stripped.lower(), for some phrase of update_phrases
\* (coordinator.py: three spellings of "zminy v HPV").
HasUpdatePhrase(line) == line.kind = "upd" /\ line.variant # "hrafiku"

\* parse_cek.py lists "zminy v hrafiku" as well.
HasUpdatePhraseCli(line) == line.kind = "upd"

\* The override key phrase occurs in the markup of the block (re.IGNORECASE);
\* the markup of a script element counts.
MarkupHasUpdatePhrase(b) ==
    (b.kind = "upd" /\ b.variant # "hrafiku") \/ b.kind = "script"

\* <p>(loudspeaker): the start of the next announcement block.
StartsAnnouncement(b) == b.kind = "ann"

\* <p>[^<]*QUEUE\s*cherga[^<]*(?:<br\s*/?>.*?)*</p>
IsPrimaryBlock(b) == b.kind = "para" /\ b.queue = "this"

\* (pushpin)\s*QUEUE(?:\s*cherga)?
IsQueuePin(b) == b.kind = "pin" /\ b.queue = "this"

\* (pushpin): where [^(pushpin)]* stops.
HasPin(b) == b.kind = "pin"

IsDo(r) == r.sep = "do"

RECURSIVE Canonical(_)
Canonical(rs) ==
    IF rs = <<>> THEN <<>>
    ELSE <<FormatRange(Head(rs).start, Head(rs).end)>> \o Canonical(Tail(rs))

\* re.findall(r"(\d{2}:\d{2})\s*do\s*(\d{2}:\d{2})", p_content), formatted.
time_ranges_do(rs) == Canonical(SelectSeq(rs, IsDo))

\* _extract_time_ranges / extract_time_ranges: both separator words.
extract_time_ranges_keeps_word(rs) == rs

extract_time_ranges(rs) == Canonical(rs)

\* The time range texts of a run of blocks, in markup order.
RECURSIVE RangesOf(_)
RangesOf(blocks) ==
    IF blocks = <<>> THEN <<>>
    ELSE Head(blocks).ranges \o RangesOf(Tail(blocks))

AnnouncementLine(line) == HasKeyPhrase(line) /\ HasDate(line)

\* schedules: one list per matched block, kept only "if time_ranges".
RECURSIVE schedules_of(_)
schedules_of(matches) ==
    IF matches = <<>> THEN <<>>
    ELSE LET time_ranges == time_ranges_do(Head(matches).ranges)
         IN  (IF time_ranges # <<>> THEN <<time_ranges>> ELSE <<>>)
                 \o schedules_of(Tail(matches))

\* _extract_first_schedule_block(html, text, queue)
extract_first_schedule_block_paired(h, text) ==
    LET announcements == SelectSeq(text, AnnouncementLine)
        schedule_matches == SelectSeq(h, IsPrimaryBlock)
        schedules == schedules_of(schedule_matches)
    IN  [date |-> IF announcements # <<>> THEN announcements[1].date ELSE None,
         announcement |-> IF announcements # <<>> THEN announcements[1] ELSE None,
         schedule |-> IF announcements # <<>> /\ schedules # <<>> THEN schedules[1] ELSE <<>>]

extract_first_schedule_block(h, text) ==
    LET announcements == SelectSeq(text, AnnouncementLine)
        schedule_matches == SelectSeq(h, IsPrimaryBlock)
        schedules == schedules_of(schedule_matches)
    IN  [date |-> IF announcements # <<>> THEN announcements[1].date ELSE None,
         announcement |-> IF announcements # <<>> THEN announcements[1] ELSE None,
         schedule |-> IF schedules # <<>> THEN schedules[1] ELSE <<>>]

\* parse_cek.extract_queue_schedule / the legacy _extract_queue_schedule:
\* re.search, the first matching block whatever it contains.
extract_queue_schedule(h) ==
    LET m == FirstIndex(h, IsPrimaryBlock)
    IN  IF m = 0 THEN <<>> ELSE extract_time_ranges(h[m].ranges)

legacy_extract_queue_schedule(h) ==
    LET m == FirstIndex(h, IsPrimaryBlock)
    IN  IF m = 0 THEN <<>> ELSE time_ranges_do(h[m].ranges)

\* parse_cek.find_announcement(text): the lines of the text are the stripped
\* text_parts, so line.strip() returns the line.
find_announcement(text) ==
    LET i == FirstIndex(text, HasKeyPhraseCli)
    IN  IF i = 0 THEN None ELSE text[i]

\* parse_cek.extract_ukrainian_date(text), with its default key phrase.
extract_ukrainian_date(text) ==
    LET i == FirstIndex(text, AnnouncementLine)
    IN  IF i = 0 THEN None ELSE text[i].date

\* _find_update_announcement(text)
find_update_announcement(text) ==
    LET i == FirstIndex(text, HasUpdatePhrase)
    IN  IF i = 0 THEN None ELSE text[i]

\* parse_cek.find_update_announcement(text)
find_update_announcement_cli(text) ==
    LET i == FirstIndex(text, HasUpdatePhraseCli)
    IN  IF i = 0 THEN None ELSE text[i]

\* The span matched by "zminy v HPV.*?(?=<p>(loudspeaker)|...|$)": from the
\* first block with the phrase to the block before the next announcement.
update_section(h) ==
    LET first == FirstIndex(h, MarkupHasUpdatePhrase)
        rest == SubSeq(h, first + 1, Len(h))
        stop == FirstIndex(rest, StartsAnnouncement)
    IN  IF first = 0 THEN None
        ELSE List(SubSeq(h, first, IF stop = 0 THEN Len(h) ELSE first + stop - 1))

\* The span matched by the queue pattern inside the section: from the pin of
\* the queue to the block before the next pin.
queue_content(section) ==
    LET k == FirstIndex(section, IsQueuePin)
        rest == SubSeq(section, k + 1, Len(section))
        stop == FirstIndex(rest, HasPin)
    IN  IF k = 0 THEN None
        ELSE List(SubSeq(section, k, IF stop = 0 THEN Len(section) ELSE k + stop - 1))

\* _extract_update_schedule(html, queue) / parse_cek.extract_update_schedule
extract_update_schedule_empty_when_no_queue(h) ==
    LET update_match == update_section(h)
    IN  IF update_match = None THEN None
        ELSE LET queue_match == queue_content(update_match.items)
             IN  IF queue_match # None
                 THEN List(extract_time_ranges(RangesOf(queue_match.items)))
                 ELSE List(<<>>)

extract_update_schedule(h) ==
    LET update_match == update_section(h)
    IN  IF update_match = None THEN None
        ELSE LET queue_match == queue_content(update_match.items)
             IN  IF queue_match # None
                 THEN List(extract_time_ranges(RangesOf(queue_match.items)))
                 ELSE None

\* Lines 146-153 of _fetch_data and lines 220, 234-240 of parse_cek_page.
merge_policy_appends(main_schedule, update_schedule, update_announcement) ==
    IF Truthy(update_schedule)
    THEN [schedule |-> main_schedule \o update_schedule.items, has_update |-> TRUE]
    ELSE [schedule |-> main_schedule, has_update |-> update_announcement # None]

merge_policy_flag_from_announcement(main_schedule, update_schedule, update_announcement) ==
    IF Truthy(update_schedule)
    THEN [schedule |-> update_schedule.items, has_update |-> update_announcement # None]
    ELSE [schedule |-> main_schedule, has_update |-> update_announcement # None]

merge_policy(main_schedule, update_schedule, update_announcement) ==
    IF Truthy(update_schedule)
    THEN [schedule |-> update_schedule.items, has_update |-> TRUE]
    ELSE [schedule |-> main_schedule, has_update |-> update_announcement # None]

\* parse_cek.merge_schedules(original, update); no caller in the repository.
merge_schedules(original, update) ==
    IF ~Truthy(update) THEN original ELSE update.items

\* _fetch_data, given the page that _fetch_page returned.
fetch_data(h, n, skew) ==
    LET text == extract_text_from_html(h)
        schedule_data == extract_first_schedule_block(h, text)
        update_announcement == find_update_announcement(text)
        update_schedule == extract_update_schedule(h)
        merged == merge_policy(schedule_data.schedule, update_schedule, update_announcement)
        projection == project(merged.schedule, schedule_data.date, n, skew)
    IN  IF projection = ValueError THEN ValueError
        ELSE [tag |-> "record",
              date |-> schedule_data.date,
              full_announcement |-> schedule_data.announcement,
              queue |-> "this",
              schedule |-> merged.schedule,
              next_outage |-> projection.next_outage,
              is_active |-> projection.is_active,
              has_update |-> merged.has_update,
              update_announcement |-> update_announcement]

\* parse_cek.parse_cek_page, given the page that fetch_page returned.
parse_cek_page(h) ==
    LET text == extract_text_from_html(h)
        announcement == find_announcement(text)
        update_announcement == find_update_announcement_cli(text)
        main_schedule == extract_queue_schedule(h)
        update_schedule == extract_update_schedule(h)
        merged == merge_policy(main_schedule, update_schedule, update_announcement)
    IN  [tag |-> "record",
         date |-> IF announcement # None THEN extract_ukrainian_date(text) ELSE None,
         full_announcement |-> announcement,
         queue |-> "this",
         schedule |-> merged.schedule,
         has_update |-> merged.has_update,
         update_announcement |-> update_announcement,
         main_schedule |-> main_schedule,
         update_schedule |-> update_schedule]

-----------------------------------------------------------------------------
(* Inputs of the temporal projector.                                       *)

SeqsUpTo(S, n) == UNION {[1..k -> S] : k \in 0..n}

\* Entries as the extractors write them; 25:00 and 12:75 are texts the
\* pattern \d{2}:\d{2} accepts although they are no clock times.
ScheduleRanges ==
    { FormatRange(Clock(0, 0), Clock(2, 0)),
      FormatRange(Clock(5, 30), Clock(12, 30)),
      FormatRange(Clock(2, 0), Clock(5, 30)),
      FormatRange(Clock(22, 0), Clock(24, 0)),
      FormatRange(Clock(25, 0), Clock(2, 0)),
      FormatRange(Clock(12, 75), Clock(13, 0)) }

Schedules == SeqsUpTo(ScheduleRanges, MaxRanges)

\* "<day> <month>" as captured by (\d{1,2})\s+(month): 1 = SICHNYA (January,
\* upper case), 14 = lyutoho (February, lower case), 23 = lystopada (November).
DateTexts == {DateText(d, sp) : d \in {0, 5, 29, 31}, sp \in {1, 14, 23}}

Instant(y, mo, d, mi) == [tag |-> "datetime", year |-> y, month |-> mo, day |-> d, minute |-> mi]

NowDays == {<<2024, 11, 5>>, <<2025, 1, 5>>, <<2024, 2, 29>>}
NowMinutes == {60, 120, 330, 750, 1320}
Nows == {Instant(d[1], d[2], d[3], mi) : d \in NowDays, mi \in NowMinutes}

\* The OS-local zone is the configured zone, or two hours ahead of it.
TzSkews == {0, 120}

-----------------------------------------------------------------------------
(* SpecProject: the temporal projector applied to every input.             *)

InitProject ==
    /\ schedule \in Schedules
    /\ date_str \in DateTexts \cup {None}
    /\ now \in Nows
    /\ tzSkew \in TzSkews
    /\ pc = "call"
    /\ rec = None
    /\ html = <<>> /\ cli = None
    /\ last_successful_data = None /\ last_updated = None /\ last_check = None
    /\ last_error = None /\ data = None /\ result = None
    /\ lastGood = None /\ lastOutcome = "none"
    /\ TextIdle

Project ==
    /\ pc = "call"
    /\ rec' = project(schedule, date_str, now, tzSkew)
    /\ pc' = "projected"
    /\ UNCHANGED <<html, now, tzSkew, schedule, date_str, cli>>
    /\ UNCHANGED coordVars
    /\ UNCHANGED textVars

NextProject == Project

SpecProject == InitProject /\ [][NextProject]_vars

Projected == pc = "projected"

\* The month a date text names, read off the spelling table.
TokenMonth(ds) == ((ds.spelling - 1) % 12) + 1

\* The year the specification resolves a date text to.
ExpectedYear(ds, n) == IF TokenMonth(ds) >= n.month THEN n.year ELSE n.year + 1

\* The date text names a day that exists in the resolved year.
RealDate(ds, n) ==
    ds.day >= 1 /\ ds.day <= DaysInMonth(ExpectedYear(ds, n), TokenMonth(ds))

ValidClock(c) == c.h \in 0..23 /\ c.m \in 0..59

\* Start instants, on the resolved date, of the entries of a schedule.
StartInstants(sched, ds, n) ==
    { Instant(ExpectedYear(ds, n), TokenMonth(ds), ds.day, MinutesOf(sched[i].start)) :
        i \in {j \in 1..Len(sched) : ValidClock(sched[j].start)} }

FutureStarts(sched, ds, n) == {t \in StartInstants(sched, ds, n) : After(t, n)}

\* C3: is_active is true exactly when the clock time read by the projector
\* lies in the half-open window [start, end) of at least one entry.
C3_ActiveIffInHalfOpenWindow ==
    Projected /\ rec # ValueError =>
        (rec.is_active <=>
            \E i \in 1..Len(schedule) :
                /\ MinutesOf(schedule[i].start) <= OsMinute(now, tzSkew)
                /\ OsMinute(now, tzSkew) < MinutesOf(schedule[i].end))

\* C4: on a resolved date and a schedule of valid clock times in any order,
\* next_outage is the earliest start after now, and is absent only when no
\* start is after now.
C4_NextIsMinimumFutureStart ==
    (/\ Projected /\ rec # ValueError
     /\ date_str # None /\ RealDate(date_str, now)
     /\ \A i \in 1..Len(schedule) : ValidClock(schedule[i].start))
    => LET F == FutureStarts(schedule, date_str, now)
       IN  IF F = {} THEN rec.next_outage = None
           ELSE /\ rec.next_outage \in F
                /\ \A t \in F : Ord(rec.next_outage) <= Ord(t)

\* C7: the year of a resolved date is the current year when the month of the
\* date text is not before the current month, and the next year otherwise.
C7_YearResolution ==
    Projected /\ rec # ValueError /\ rec.next_outage # None =>
        /\ rec.next_outage.month = TokenMonth(date_str)
        /\ rec.next_outage.year = ExpectedYear(date_str, now)

\* A January date read in November gave an instant.
C7_Witness ==
    /\ Projected /\ rec # ValueError /\ rec.next_outage # None
    /\ TokenMonth(date_str) = 1 /\ now.month = 11

\* C8: no date text and no schedule makes the projection raise; a date text
\* that names no real calendar date gives next_outage = None, and the other
\* projection is still delivered.
C8_MalformedNeverRaises ==
    Projected =>
        /\ rec # ValueError
        /\ rec.tag = "projection"
        /\ (date_str # None /\ ~RealDate(date_str, now) => rec.next_outage = None)
        /\ rec.is_active \in BOOLEAN

\* A non-empty schedule was projected on the 31st of February.
C8_Witness ==
    /\ Projected /\ schedule # <<>>
    /\ date_str # None /\ date_str.day = 31 /\ TokenMonth(date_str) = 2
    /\ rec # ValueError /\ rec.next_outage = None

\* An entry with hour 25 was reached on a real date.
C8_WitnessBadHour ==
    /\ Projected /\ schedule # <<>> /\ ~ValidClock(schedule[1].start)
    /\ date_str # None /\ RealDate(date_str, now)
    /\ rec # ValueError /\ rec.next_outage = None

\* C14: both projections are taken at the one instant handed to the
\* extraction, in its zone: the pair is what the projector gives when the two
\* clocks it reads show that same instant, so it depends on the schedule,
\* the date text and that instant only.
C14_OneInstantOneZone ==
    Projected => rec = project(schedule, date_str, now, 0)

-----------------------------------------------------------------------------
(* SpecExtract: one page handed to _fetch_data and to parse_cek_page.      *)

RangeA == RangeText(Clock(0, 0), "do", Clock(2, 0))
RangeB == RangeText(Clock(5, 30), "do", Clock(12, 30))
RangeC == RangeText(Clock(3, 0), "po", Clock(7, 0))
\* Two digits, a colon, two digits, twice, and no clock time in either.
RangeBad == RangeText(Clock(25, 0), "do", Clock(12, 75))

Blocks ==
    {Para("this", rs) : rs \in {<<>>, <<RangeA>>, <<RangeB, RangeA>>, <<RangeC>>}}
    \cup {Para("this", <<RangeBad>>), Para("other", <<RangeB>>)}
    \cup {Ann(d) : d \in {None, DateText(5, 13), DateText(31, 14)}}
    \cup {AnnShort(DateText(5, 13))}
    \cup {Upd(v) : v \in {"lower", "upper", "hrafiku"}}
    \cup {Pin("this", rs) : rs \in {<<>>, <<RangeC>>}}
    \cup {Pin("other", <<RangeC>>)}
    \cup {Plain, Script}

Documents == SeqsUpTo(Blocks, MaxBlocks)

ExtractNow == Instant(2024, 11, 5, 60)

InitExtract ==
    /\ html \in Documents
    /\ now = ExtractNow
    /\ tzSkew = 0
    /\ pc = "call"
    /\ rec = None /\ cli = None
    /\ schedule = <<>> /\ date_str = None
    /\ last_successful_data = None /\ last_updated = None /\ last_check = None
    /\ last_error = None /\ data = None /\ result = None
    /\ lastGood = None /\ lastOutcome = "none"
    /\ TextIdle

\* The integration extracts the page.
FetchData ==
    /\ pc = "call"
    /\ rec' = fetch_data(html, now, tzSkew)
    /\ pc' = "fetched"
    /\ UNCHANGED <<html, now, tzSkew, schedule, date_str, cli>>
    /\ UNCHANGED coordVars
    /\ UNCHANGED textVars

\* The command line parser extracts the same page.
ParseCekPage ==
    /\ pc = "fetched"
    /\ cli' = parse_cek_page(html)
    /\ pc' = "parsed"
    /\ UNCHANGED <<html, now, tzSkew, schedule, date_str, rec>>
    /\ UNCHANGED coordVars
    /\ UNCHANGED textVars

NextExtract == FetchData \/ ParseCekPage

SpecExtract == InitExtract /\ [][NextExtract]_vars

Fetched == pc \in {"fetched", "parsed"} /\ rec # ValueError
Parsed == pc = "parsed"

\* What the two extractors of _fetch_data returned for the page.
PrimaryOf(h) == extract_first_schedule_block(h, extract_text_from_html(h)).schedule
OverrideOf(h) == extract_update_schedule(h)

\* C1: a non-empty override is the effective schedule, entry for entry;
\* without one (none or empty) the primary schedule is the effective one.
C1_OverridePrecedence ==
    /\ Fetched =>
          rec.schedule = IF OverrideOf(html) # None /\ OverrideOf(html).items # <<>>
                         THEN OverrideOf(html).items
                         ELSE PrimaryOf(html)
    /\ Parsed =>
          /\ cli.schedule = IF cli.update_schedule # None /\ cli.update_schedule.items # <<>>
                            THEN cli.update_schedule.items
                            ELSE cli.main_schedule
          /\ merge_schedules(cli.main_schedule, cli.update_schedule) = cli.schedule

\* A page with a non-empty primary schedule and a different non-empty override.
C1_Witness ==
    /\ Fetched
    /\ PrimaryOf(html) # <<>>
    /\ OverrideOf(html) # None /\ OverrideOf(html).items # <<>>
    /\ OverrideOf(html).items # PrimaryOf(html)
    /\ rec.schedule = OverrideOf(html).items

\* C2: has_update is true exactly when the override schedule is non-empty
\* or an override announcement line was found; a page with neither an
\* override section nor an override announcement gives has_update = FALSE
\* and the primary schedule.
C2_HasUpdate ==
    /\ Fetched =>
          /\ rec.has_update <=>
                \/ (OverrideOf(html) # None /\ OverrideOf(html).items # <<>>)
                \/ rec.update_announcement # None
          /\ (update_section(html) = None /\ rec.update_announcement = None) =>
                (~rec.has_update /\ rec.schedule = PrimaryOf(html))
    /\ Parsed =>
          (cli.has_update <=>
                \/ (cli.update_schedule # None /\ cli.update_schedule.items # <<>>)
                \/ cli.update_announcement # None)

\* An override schedule was found on a page whose text has no override
\* announcement line.
C2_Witness ==
    /\ Fetched
    /\ OverrideOf(html) # None /\ OverrideOf(html).items # <<>>
    /\ rec.update_announcement = None
    /\ rec.has_update

\* The page has an override section / a sub-block of the queue inside it.
SectionPresent(h) == \E i \in 1..Len(h) : MarkupHasUpdatePhrase(h[i])

QueueSubBlockPresent(h) ==
    \E i \in 1..Len(h) :
        /\ MarkupHasUpdatePhrase(h[i])
        /\ \A j \in 1..(i - 1) : ~MarkupHasUpdatePhrase(h[j])
        /\ \E k \in (i + 1)..Len(h) :
              /\ IsQueuePin(h[k])
              /\ \A j \in (i + 1)..k : ~StartsAnnouncement(h[j])

\* C9 as stated: the override resolver returns None exactly when the page
\* has no override section, and an empty list when the section has no
\* sub-block of the queue.
C9_NoneIffSectionAbsent ==
    Parsed =>
        /\ cli.update_schedule = None <=> ~SectionPresent(html)
        /\ (SectionPresent(html) /\ ~QueueSubBlockPresent(html)) =>
              cli.update_schedule = List(<<>>)

\* C9 amended: the override resolver returns None when the page has no
\* override section and also when the section has no sub-block of the
\* queue; it returns a list, possibly empty, exactly when the sub-block
\* is found.
C9_NoneIffNoSubBlock ==
    Parsed =>
        /\ ~SectionPresent(html) => cli.update_schedule = None
        /\ (SectionPresent(html) /\ ~QueueSubBlockPresent(html)) =>
              cli.update_schedule = None
        /\ QueueSubBlockPresent(html) =>
              (cli.update_schedule # None /\ cli.update_schedule.tag = "list")

\* A page with an override section that has no sub-block of the queue.
C9_Witness ==
    /\ Parsed
    /\ SectionPresent(html) /\ ~QueueSubBlockPresent(html)
    /\ cli.update_schedule = None

\* The primary blocks of the page, in document order.
PrimaryBlocks(h) == SelectSeq(h, IsPrimaryBlock)

\* C10: on a page with several primary blocks of the queue and no override,
\* the schedule is the list of time ranges of the first of them, empty when
\* that block holds no time range.
C10_FirstPrimaryBlockOnly ==
    (/\ Fetched
     /\ Len(PrimaryBlocks(html)) >= 2
     /\ ~Truthy(OverrideOf(html)))
    => rec.schedule = time_ranges_do(PrimaryBlocks(html)[1].ranges)

\* The first line of the text that satisfies the test of a locator.
FirstLine(text, i) == IF i = 0 THEN None ELSE text[i]

\* C12: when a line of the text contains the primary key phrase, the
\* announcement of the record is the first such line; the override
\* announcement is the first line that contains a variant of the override
\* phrase in any letter case (none when no line does). Each extractor is
\* held to its own phrases.
C12_FirstMatchWins ==
    LET text == extract_text_from_html(html)
    IN  /\ Fetched =>
              /\ (\E i \in 1..Len(text) : HasKeyPhrase(text[i])) =>
                    rec.full_announcement = FirstLine(text, FirstIndex(text, HasKeyPhrase))
              /\ rec.update_announcement = FirstLine(text, FirstIndex(text, HasUpdatePhrase))
        /\ Parsed =>
              /\ (\E i \in 1..Len(text) : HasKeyPhraseCli(text[i])) =>
                    cli.full_announcement = FirstLine(text, FirstIndex(text, HasKeyPhraseCli))
              /\ cli.update_announcement = FirstLine(text, FirstIndex(text, HasUpdatePhraseCli))

\* The call of _fetch_data has returned or raised.
Returned == pc \in {"fetched", "parsed"}

\* Nothing the extractors of _fetch_data look for occurs in the page.
ZeroMatch(h) ==
    LET text == extract_text_from_html(h)
    IN  /\ \A i \in 1..Len(text) : ~HasKeyPhrase(text[i]) /\ ~HasUpdatePhrase(text[i])
        /\ PrimaryBlocks(h) = <<>>
        /\ update_section(h) = None

LacksKeyPhrase(h) ==
    \A i \in 1..Len(extract_text_from_html(h)) : ~HasKeyPhrase(extract_text_from_html(h)[i])

\* What the schedule patterns find in the markup, the text left aside.
ScheduleFound(h) ==
    IF schedules_of(PrimaryBlocks(h)) # <<>> THEN schedules_of(PrimaryBlocks(h))[1] ELSE <<>>

\* C13: a page in which nothing matches is extracted without an exception
\* into the complete record with every field absent, empty or false; on a
\* page without the primary key phrase the date and the announcement are
\* absent and the primary schedule is what the schedule patterns find (the
\* schedule of the record, when no override replaces it).
C13_MissIsNeverFatal ==
    Returned =>
        /\ ZeroMatch(html) =>
              rec = [tag |-> "record", date |-> None, full_announcement |-> None,
                     queue |-> "this", schedule |-> <<>>, next_outage |-> None,
                     is_active |-> FALSE, has_update |-> FALSE,
                     update_announcement |-> None]
        /\ LacksKeyPhrase(html) =>
              /\ rec # ValueError
              /\ rec.date = None /\ rec.full_announcement = None
              /\ PrimaryOf(html) = ScheduleFound(html)
              /\ ~Truthy(OverrideOf(html)) => rec.schedule = ScheduleFound(html)

\* A page without the key phrase whose primary block gave the schedule.
C13_Witness ==
    /\ Returned /\ LacksKeyPhrase(html)
    /\ ScheduleFound(html) # <<>> /\ rec.schedule = ScheduleFound(html)
    /\ rec.date = None

\* A page of paragraphs in which nothing matched.
C13_WitnessZeroMatch ==
    /\ Returned /\ ZeroMatch(html) /\ html # <<>>
    /\ rec.schedule = <<>> /\ ~rec.has_update

\* A start is a clock time 00:00..23:59, an end a clock time 00:00..24:00.
ValidStart(c) == c.h \in 0..23 /\ c.m \in 0..59
ValidEnd(c) == ValidStart(c) \/ (c.h = 24 /\ c.m = 0)

ValidRanges(rs) ==
    \A i \in 1..Len(rs) : ValidStart(rs[i].start) /\ ValidEnd(rs[i].end)

\* C17: every entry of the primary, the override and the effective schedule
\* has a start in 00:00..23:59 and an end in 00:00..24:00; a text of two
\* digits, a colon and two digits that is no clock time is not retained.
C17_RetainedRangesAreValid ==
    Fetched =>
        /\ ValidRanges(PrimaryOf(html))
        /\ OverrideOf(html) # None => ValidRanges(OverrideOf(html).items)
        /\ ValidRanges(rec.schedule)

\* The time range texts the effective schedule was read from, in markup
\* order: those of the sub-block of the queue in the override section, or
\* those with the word "to" of the primary block that was used.
SourceRanges(h) ==
    IF Truthy(OverrideOf(h))
    THEN RangesOf(queue_content(update_section(h).items).items)
    ELSE LET used == SelectSeq(PrimaryBlocks(h), LAMBDA b : SelectSeq(b.ranges, IsDo) # <<>>)
         IN  IF used = <<>> THEN <<>> ELSE SelectSeq(used[1].ranges, IsDo)

\* C18: every entry of the schedule of the record is written "HH:MM <to>
\* HH:MM", whichever of the two separator words its source had, and the
\* entries stand in the order of their source.
C18_CanonicalForm ==
    Fetched =>
        /\ \A i \in 1..Len(rec.schedule) : rec.schedule[i].sep = "do"
        /\ Len(rec.schedule) = Len(SourceRanges(html))
        /\ \A i \in 1..Len(rec.schedule) :
              /\ rec.schedule[i].start = SourceRanges(html)[i].start
              /\ rec.schedule[i].end = SourceRanges(html)[i].end

\* An override written with the word "through" became the schedule.
C18_Witness ==
    /\ Fetched
    /\ Truthy(OverrideOf(html))
    /\ \E i \in 1..Len(SourceRanges(html)) : SourceRanges(html)[i].sep = "po"
    /\ rec.schedule # <<>> /\ rec.schedule[1].sep = "do"

\* A primary block whose later entry is the earlier time kept its order.
C18_WitnessOrder ==
    /\ Fetched /\ ~Truthy(OverrideOf(html))
    /\ rec.schedule = <<FormatRange(Clock(5, 30), Clock(12, 30)),
                        FormatRange(Clock(0, 0), Clock(2, 0))>>

-----------------------------------------------------------------------------
(* Spec: the update cycles of CEKDataUpdateCoordinator, the clock, and the *)
(* entities that read coordinator.data between the cycles.                 *)

DateToday == DateText(5, 23)    \* "5 lystopada"

\* Pages the site serves over a day.
SitePages ==
    { <<Ann(DateToday), Para("this", <<RangeA, RangeB>>)>>,
      <<Ann(DateToday), Para("this", <<RangeB>>), Upd("lower"), Pin("this", <<RangeC>>)>>,
      <<Ann(DateText(31, 14)), Para("this", <<RangeA>>)>>,
      <<Plain>> }

ClockMinutes == {60, 120, 200, 330, 750}

Init ==
    /\ html = <<>>
    /\ now = Instant(2024, 11, 5, 60)
    /\ tzSkew \in TzSkews
    /\ pc = "idle"
    /\ rec = None /\ cli = None
    /\ schedule = <<>> /\ date_str = None
    /\ last_successful_data = None /\ last_updated = None /\ last_check = None
    /\ last_error = None /\ data = None /\ result = None
    /\ lastGood = None /\ lastOutcome = "none"
    /\ TextIdle

\* Time passes, also while a fetch is in flight.
Tick ==
    /\ \E m \in ClockMinutes :
          /\ m > now.minute
          /\ \A k \in ClockMinutes : k > now.minute => m <= k
          /\ now' = [now EXCEPT !.minute = m]
    /\ UNCHANGED <<html, tzSkew, schedule, date_str, rec, cli, pc>>
    /\ UNCHANGED coordVars
    /\ UNCHANGED textVars

\* _async_update_data up to the await: every attempt is stamped.
BeginUpdate ==
    /\ pc = "idle"
    /\ last_check' = now
    /\ pc' = "fetching"
    /\ UNCHANGED <<html, now, tzSkew, schedule, date_str, rec, cli>>
    /\ UNCHANGED <<last_successful_data, last_updated, last_error, data, result,
                   lastGood, lastOutcome>>
    /\ UNCHANGED textVars

\* What the executor job delivers: the record, or the exception that
\* _fetch_page or the extraction raised.
executor_job(reachable, page, n, skew) ==
    IF reachable THEN fetch_data(page, n, skew) ELSE URLError

IsRecord(x) == x.tag = "record"

\* Lines 121-127: the cached record if there is one, else UpdateFailed.
on_failure_always_raises(cached) == UpdateFailed

on_failure(cached) == IF cached # None THEN cached ELSE UpdateFailed

\* The try branch, lines 110-115. The base class publishes the returned
\* record as coordinator.data.
FetchSucceeds_keeps_error ==
    /\ pc = "fetching"
    /\ \E page \in SitePages :
          LET fetched == executor_job(TRUE, page, now, tzSkew)
          IN  /\ IsRecord(fetched)
              /\ html' = page
              /\ last_successful_data' = fetched
              /\ last_updated' = now
              /\ result' = fetched
              /\ data' = fetched
              /\ lastGood' = fetched
    /\ lastOutcome' = "success"
    /\ pc' = "idle"
    /\ UNCHANGED <<now, tzSkew, schedule, date_str, rec, cli, last_check, last_error>>
    /\ UNCHANGED textVars

FetchSucceeds ==
    /\ pc = "fetching"
    /\ \E page \in SitePages :
          LET fetched == executor_job(TRUE, page, now, tzSkew)
          IN  /\ IsRecord(fetched)
              /\ html' = page
              /\ last_successful_data' = fetched
              /\ last_updated' = now
              /\ last_error' = None
              /\ result' = fetched
              /\ data' = fetched
              /\ lastGood' = fetched
    /\ lastOutcome' = "success"
    /\ pc' = "idle"
    /\ UNCHANGED <<now, tzSkew, schedule, date_str, rec, cli, last_check>>
    /\ UNCHANGED textVars

\* The except branch, lines 116-127. The base class publishes a returned
\* record and keeps the previous coordinator.data when UpdateFailed is raised.
FetchFails_clears_cache ==
    /\ pc = "fetching"
    /\ \E reachable \in BOOLEAN, page \in SitePages :
          /\ ~IsRecord(executor_job(reachable, page, now, tzSkew))
          /\ html' = IF reachable THEN page ELSE html
    /\ last_error' = [tag |-> "message"]
    /\ last_successful_data' = None
    /\ result' = on_failure(last_successful_data)
    /\ data' = IF result' = UpdateFailed THEN data ELSE result'
    /\ lastOutcome' = "failure"
    /\ pc' = "idle"
    /\ UNCHANGED <<now, tzSkew, schedule, date_str, rec, cli,
                   last_updated, last_check, lastGood>>
    /\ UNCHANGED textVars

FetchFails_stamps_last_updated ==
    /\ pc = "fetching"
    /\ \E reachable \in BOOLEAN, page \in SitePages :
          /\ ~IsRecord(executor_job(reachable, page, now, tzSkew))
          /\ html' = IF reachable THEN page ELSE html
    /\ last_error' = [tag |-> "message"]
    /\ last_updated' = now
    /\ result' = on_failure(last_successful_data)
    /\ data' = IF result' = UpdateFailed THEN data ELSE result'
    /\ lastOutcome' = "failure"
    /\ pc' = "idle"
    /\ UNCHANGED <<now, tzSkew, schedule, date_str, rec, cli,
                   last_successful_data, last_check, lastGood>>
    /\ UNCHANGED textVars

FetchFails ==
    /\ pc = "fetching"
    /\ \E reachable \in BOOLEAN, page \in SitePages :
          /\ ~IsRecord(executor_job(reachable, page, now, tzSkew))
          /\ html' = IF reachable THEN page ELSE html
    /\ last_error' = [tag |-> "message"]
    /\ result' = on_failure(last_successful_data)
    /\ data' = IF result' = UpdateFailed THEN data ELSE result'
    /\ lastOutcome' = "failure"
    /\ pc' = "idle"
    /\ UNCHANGED <<now, tzSkew, schedule, date_str, rec, cli,
                   last_successful_data, last_updated, last_check, lastGood>>
    /\ UNCHANGED textVars

Next == Tick \/ BeginUpdate \/ FetchSucceeds \/ FetchFails

Spec == Init /\ [][Next]_vars

\* CEKOutageActiveSensor.is_on
is_on(d) == IF d = None THEN None ELSE [tag |-> "bool", value |-> d.is_active]

\* C5: a failed cycle returns the record of the most recent successful
\* cycle as that cycle produced it; with no successful cycle so far it
\* raises UpdateFailed.
C5_FailureFallsBackToLastGood ==
    lastOutcome = "failure" =>
        /\ lastGood # None => (result = lastGood /\ data = lastGood)
        /\ lastGood = None => result = UpdateFailed

\* A cycle failed later than the cycle that produced the cached record.
C5_Witness ==
    /\ lastOutcome = "failure"
    /\ lastGood # None /\ result = lastGood
    /\ last_updated # None /\ Ord(last_check) > Ord(last_updated)

\* A cycle failed before any cycle succeeded.
C5_WitnessNoCache ==
    lastOutcome = "failure" /\ lastGood = None /\ result = UpdateFailed

\* C6: whenever coordinator.data is present, is_on tells whether the clock
\* time of the moment of reading lies inside an entry of the schedule of
\* the record (the window test is the one the projector applies).
C6_IsOnTracksTheClock ==
    data # None =>
        is_on(data).value = is_outage_active(data.schedule, OsMinute(now, tzSkew))

\* An update attempt starts, and ends in one of the two ways.
AttemptStarts == pc = "idle" /\ pc' = "fetching"
AttemptSucceeds == pc = "fetching" /\ pc' = "idle" /\ lastOutcome' = "success"
AttemptFails == pc = "fetching" /\ pc' = "idle" /\ lastOutcome' = "failure"

\* C19: the start of every attempt stamps last_check with the time of the
\* start, and nothing else changes it; a successful attempt stamps
\* last_updated with the time of its end; a failed attempt leaves
\* last_updated and the cached record as they were.
C19_TimestampBookkeeping ==
    [][ /\ AttemptStarts => last_check' = now
        /\ ~AttemptStarts => last_check' = last_check
        /\ AttemptSucceeds => last_updated' = now
        /\ AttemptFails =>
              /\ last_updated' = last_updated
              /\ last_successful_data' = last_successful_data
        /\ ~AttemptSucceeds => last_updated' = last_updated ]_vars

\* An attempt failed after an earlier one had succeeded: the check stamp is
\* the later of the two.
C19_Witness ==
    /\ pc = "idle" /\ lastOutcome = "failure"
    /\ last_updated # None /\ last_successful_data # None
    /\ last_check # last_updated /\ Ord(last_updated) < Ord(last_check)

\* C20: last_error is None exactly when the attempt that ended last
\* succeeded or no attempt has ended yet; a failed attempt leaves a message
\* also when it returned the cached record.
C20_LastErrorTracksLastAttempt ==
    /\ (last_error = None) <=> (lastOutcome \in {"success", "none"})
    /\ (lastOutcome = "failure" /\ result # UpdateFailed) => last_error # None

\* A failed attempt returned the cached record and left its message.
C20_Witness ==
    /\ lastOutcome = "failure" /\ last_error # None
    /\ result # UpdateFailed /\ result = last_successful_data

\* An attempt succeeded later than the first one: the error is cleared.
C20_WitnessCleared ==
    /\ lastOutcome = "success" /\ last_error = None
    /\ last_updated # None /\ last_updated.minute > 60

\* C21: once a cycle of the coordinator has succeeded, the cached record
\* is never cleared and every cycle that ends returns a record: the fresh
\* one on success, the cached one on failure, never UpdateFailed.
C21_NoUpdateFailedAfterSuccess ==
    [][ lastGood # None =>
            /\ last_successful_data' # None
            /\ AttemptSucceeds => IsRecord(result')
            /\ AttemptFails => (result' # UpdateFailed /\ result' = last_successful_data) ]_vars

\* Two hours and more after the one successful cycle an attempt failed and
\* returned the record of that cycle.
C21_Witness ==
    /\ pc = "idle" /\ lastOutcome = "failure" /\ lastGood # None
    /\ IsRecord(result) /\ result = lastGood
    /\ last_updated # None /\ last_updated.minute <= 120 /\ last_check.minute >= 330

\* C22: between two cycles the stamp of the last successful update, when
\* there is one, is not later than the stamp of the last attempt.
C22_LastUpdatedNotAfterLastCheck ==
    (pc = "idle" /\ last_updated # None) => Ord(last_updated) <= Ord(last_check)

-----------------------------------------------------------------------------
(* SpecSensor: the figures CEKSensor derives from the schedule of the      *)
(* record. Entries are in the form the patterns of sensor.py match:        *)
(* "HH:MM <to> HH:MM"; an entry in another form contributes nothing.       *)
(* A percentage is a number with one decimal, held in tenths.              *)

\* re.match(r"(\d{2}):(\d{2})\s*do\s*(\d{2}):(\d{2})", time_range)
sensor_match(time_range) == time_range.sep = "do"

\* _calculate_outage_minutes(schedule)
RECURSIVE calculate_outage_minutes(_)
calculate_outage_minutes(sched) ==
    IF sched = <<>> THEN 0
    ELSE calculate_outage_minutes(SubSeq(sched, 1, Len(sched) - 1))
            + (IF sensor_match(sched[Len(sched)])
               THEN MinutesOf(sched[Len(sched)].end) - MinutesOf(sched[Len(sched)].start)
               ELSE 0)

\* round(num / den, 1), in tenths: the nearest tenth, the even one of two
\* equally near (the result of round() when the quotient is exact in
\* binary, as it is for the schedules of SensorSchedules).
round1_down(num, den) == (num * 10) \div den

round1(num, den) ==
    LET q == (num * 10) \div den
        r == (num * 10) % den
    IN  IF 2 * r > den \/ (2 * r = den /\ q % 2 = 1) THEN q + 1 ELSE q

\* _calculate_outage_percentage(schedule)
calculate_outage_percentage(sched) ==
    round1(calculate_outage_minutes(sched) * 100, MinutesPerDay)

\* _calculate_outage_hours(schedule), in tenths of an hour.
calculate_outage_hours(sched) == round1(calculate_outage_minutes(sched), 60)

\* blocks = [clear] * 48
BlockCount == 48

Min(a, b) == IF a <= b THEN a ELSE b

start_block(r) == r.start.h * 2 + (IF r.start.m >= 30 THEN 1 ELSE 0)

end_block(r) == r.end.h * 2 + (IF r.end.m > 30 THEN 1 ELSE 0)

\* _generate_ascii_timeline(schedule): the header line and the line of the
\* 48 blocks; block i of the source is cell i + 1 of the sequence.
generate_ascii_timeline(sched) ==
    [header |-> "00    06    12    18    24",
     timeline |->
        [c \in 1..BlockCount |->
            IF \E k \in 1..Len(sched) :
                  /\ sensor_match(sched[k])
                  /\ start_block(sched[k]) <= c - 1
                  /\ c - 1 < Min(end_block(sched[k]), BlockCount)
            THEN "outage" ELSE "clear"]]

\* extra_state_attributes of the schedule sensor, with the total that the
\* percentage is computed from.
extra_state_attributes(sched) ==
    [tag |-> "attrs",
     time_ranges |-> sched,
     timeline_ascii |-> generate_ascii_timeline(sched),
     outage_minutes |-> calculate_outage_minutes(sched),
     outage_percentage |-> calculate_outage_percentage(sched)]

\* Entries as _extract_time_ranges writes them: ranges that end on the hour,
\* on the half hour and off both, a range that ends at 24:00, one whose end
\* is before its start, and one outside the day.
SensorRanges ==
    { FormatRange(Clock(0, 0), Clock(2, 0)),
      FormatRange(Clock(5, 30), Clock(12, 30)),
      FormatRange(Clock(22, 0), Clock(24, 0)),
      FormatRange(Clock(0, 10), Clock(0, 40)),
      FormatRange(Clock(10, 0), Clock(11, 30)),
      FormatRange(Clock(12, 45), Clock(13, 15)),
      FormatRange(Clock(23, 0), Clock(1, 0)),
      FormatRange(Clock(25, 0), Clock(26, 0)) }

SensorSchedules == SeqsUpTo(SensorRanges, MaxRanges)

InitSensor ==
    /\ schedule \in SensorSchedules
    /\ pc = "read"
    /\ rec = None
    /\ html = <<>> /\ now = ExtractNow /\ tzSkew = 0
    /\ cli = None /\ date_str = None
    /\ last_successful_data = None /\ last_updated = None /\ last_check = None
    /\ last_error = None /\ data = None /\ result = None
    /\ lastGood = None /\ lastOutcome = "none"
    /\ TextIdle

\* Home Assistant reads the attributes of the sensor.
ExtraStateAttributes ==
    /\ pc = "read"
    /\ rec' = extra_state_attributes(schedule)
    /\ pc' = "rendered"
    /\ UNCHANGED <<html, now, tzSkew, schedule, date_str, cli>>
    /\ UNCHANGED coordVars
    /\ UNCHANGED textVars

NextSensor == ExtraStateAttributes

SpecSensor == InitSensor /\ [][NextSensor]_vars

Rendered == pc = "rendered"

\* The sum over the entries 1..k of end minus start, in minutes of day.
RECURSIVE DurationSum(_, _)
DurationSum(sched, k) ==
    IF k = 0 THEN 0
    ELSE (sched[k].end.h * 60 + sched[k].end.m)
            - (sched[k].start.h * 60 + sched[k].start.m)
            + DurationSum(sched, k - 1)

C15_WitnessRounded ==
    /\ Rendered
    /\ rec.outage_minutes = 420 /\ rec.outage_percentage = 292

\* C16: the bar has 48 cells, and cell i (0..47) is marked exactly when an
\* entry [start, end) overlaps the half hour [30 i, 30 i + 30); the empty
\* schedule leaves every cell clear.
C16_BlockTimeline ==
    Rendered =>
        /\ Len(rec.timeline_ascii.timeline) = 48
        /\ \A i \in 0..47 :
              (rec.timeline_ascii.timeline[i + 1] = "outage")
                <=> \E k \in 1..Len(schedule) :
                        /\ MinutesOf(schedule[k].start) < 30 * i + 30
                        /\ MinutesOf(schedule[k].end) > 30 * i
        /\ schedule = <<>> =>
              \A i \in 0..47 : rec.timeline_ascii.timeline[i + 1] = "clear"

\* C23: whatever the schedule, also with an end that is not after its
\* start and with entries that overlap, the total of outage minutes is in
\* 0..1440, the percentage in 0..100 and the hours in 0..24.
C23_TotalsWithinTheDay ==
    Rendered =>
        /\ rec.outage_minutes \in 0..1440
        /\ rec.outage_percentage \in 0..1000
        /\ calculate_outage_hours(schedule) \in 0..240

-----------------------------------------------------------------------------
(* SpecText: TextExtractor fed one page, token by token.                   *)

MaxEvents == 4      \* longest page, in markup tokens

Tags == {"noscript", "style", "p"}

Texts == { <<" ">>, <<"a">>, <<" ", "b", " ">> }

Tokens == {StartTag(t) : t \in Tags} \cup {EndTag(t) : t \in Tags}
              \cup {Text(cs) : cs \in Texts}

InitText ==
    /\ feed \in SeqsUpTo(Tokens, MaxEvents)
    /\ cdata_elem = NoCdata
    /\ current_skip = FALSE
    /\ text_parts = <<>>
    /\ open = <<>>
    /\ html = <<>> /\ now = ExtractNow /\ tzSkew = 0
    /\ pc = "feed"
    /\ rec = None /\ cli = None
    /\ schedule = <<>> /\ date_str = None
    /\ last_successful_data = None /\ last_updated = None /\ last_check = None
    /\ last_error = None /\ data = None /\ result = None
    /\ lastGood = None /\ lastOutcome = "none"

\* The open non-rendering elements once the end tag of t is read: the
\* innermost open t is closed, with what is open inside it; an end tag of
\* an element that is not open closes nothing.
CloseElement(stack, t) ==
    IF \E i \in 1..Len(stack) : stack[i] = t
    THEN LET k == CHOOSE i \in 1..Len(stack) :
                      stack[i] = t /\ \A j \in (i + 1)..Len(stack) : stack[j] # t
         IN  SubSeq(stack, 1, k - 1)
    ELSE stack

\* A start tag is parsed: handle_starttag, then set_cdata_mode for a
\* raw-text element.
HandleStarttag ==
    /\ pc = "feed" /\ feed # <<>>
    /\ LET tok == Head(feed)
       IN  /\ tok.type = "start" /\ ~IsData(tok, cdata_elem)
           /\ current_skip' = handle_starttag(current_skip, tok.tag)
           /\ cdata_elem' = IF tok.tag \in CDATA_CONTENT_ELEMENTS THEN tok.tag ELSE cdata_elem
           /\ open' = IF tok.tag \in skip_tags THEN Append(open, tok.tag) ELSE open
    /\ feed' = Tail(feed)
    /\ UNCHANGED text_parts
    /\ UNCHANGED <<html, now, tzSkew, schedule, date_str, rec, cli, pc>>
    /\ UNCHANGED coordVars

\* An end tag is parsed: handle_endtag, then clear_cdata_mode.
HandleEndtag ==
    /\ pc = "feed" /\ feed # <<>>
    /\ LET tok == Head(feed)
       IN  /\ tok.type = "end" /\ ~IsData(tok, cdata_elem)
           /\ current_skip' = handle_endtag(current_skip, tok.tag)
           /\ open' = IF tok.tag \in skip_tags THEN CloseElement(open, tok.tag) ELSE open
    /\ cdata_elem' = NoCdata
    /\ feed' = Tail(feed)
    /\ UNCHANGED text_parts
    /\ UNCHANGED <<html, now, tzSkew, schedule, date_str, rec, cli, pc>>
    /\ UNCHANGED coordVars

\* A run of text, or a token inside a raw-text element, reaches handle_data.
HandleData ==
    /\ pc = "feed" /\ feed # <<>>
    /\ IsData(Head(feed), cdata_elem)
    /\ text_parts' = handle_data(text_parts, current_skip, RawText(Head(feed)))
    /\ feed' = Tail(feed)
    /\ UNCHANGED <<cdata_elem, current_skip, open>>
    /\ UNCHANGED <<html, now, tzSkew, schedule, date_str, rec, cli, pc>>
    /\ UNCHANGED coordVars

NextText == HandleStarttag \/ HandleEndtag \/ HandleData

SpecText == InitText /\ [][NextText]_vars

\* C11: a text read while a non-rendering element is open (its start tag
\* read, its own end tag not yet) adds nothing to text_parts, also after
\* the end tag of an element nested in it; a text read while none is open
\* is appended trimmed, after the texts before it, unless trimming leaves
\* nothing.
C11_SkipContract ==
    [][ (feed # <<>> /\ feed' = Tail(feed) /\ IsData(Head(feed), cdata_elem)) =>
            text_parts' = IF open # <<>> THEN text_parts
                          ELSE IF Strip(RawText(Head(feed))) # <<>>
                               THEN Append(text_parts, Strip(RawText(Head(feed))))
                               ELSE text_parts ]_vars

====
